---- MODULE Spec2Model ----
(***************************************************************************)
(* Data_Edit.py: a Streamlit page over one Snowflake session.  Every user  *)
(* interaction re-executes the whole script; what survives from one run to *)
(* the next is the Snowflake session (active role, catalog, table rows),   *)
(* the process-wide st.cache_data memo, st.session_state and the state of  *)
(* the widgets rendered by the previous run.  One TLA+ step is one script  *)
(* run, started by one widget interaction.                                 *)
(***************************************************************************)
EXTENDS Integers, Sequences, FiniteSets, TLC

VARIABLES
    sessRole,        \* the session's active role (CURRENT_ROLE())
    catalog,         \* the account's catalog, which other sessions change: "full" or "dropped"
    remote,          \* rows of every table, by <<database, schema, table>>
    cache,           \* st.cache_data: key -> [val, err] of a memoised call
    cachedUnder,     \* history: key -> role that was active when the entry was computed
    nq,              \* history: key -> executions of the query since the last cache clear
    session_state,   \* st.session_state: a function whose domain is {} or {"df"}
    w,               \* selectbox widget state, by label
    wedit,           \* st.data_editor widget state
    loc,             \* the last run's script variables (roles, selected_db, edited_df, ...)
    msgs,            \* messages rendered by the last run
    shown,           \* interactive widgets rendered by the last run
    log,             \* statements the last run issued, with their outcome
    trigger,         \* what started the last run: the widget the user touched, or st.rerun()
    events,          \* history: statements that have failed and grid edits made so far
    rerun_requested, \* st.rerun() was called: the script runner starts another run
    listing          \* a catalog function applied to given rows: [fn, raw, result]

vars == <<sessRole, catalog, remote, cache, cachedUnder, nq, session_state, w, wedit,
          loc, msgs, shown, log, trigger, events, rerun_requested, listing>>

----------------------------------------------------------------------------
(* Bounds of the model *)

\* failing statements and grid edit operations (cell edit, row added, row
\* deleted) in one behaviour, together
MaxEvents == 2
\* saturation value of the per-epoch query counter nq
MaxCount == 2
\* rows of a SHOW DATABASES / SHOW SCHEMAS answer given to a catalog function
\* on its own
MaxNames == 3

----------------------------------------------------------------------------
(* Python values *)

\* Python None (an empty selectbox returns it; a row added in the grid holds it)
None == "None"

\* what a cell of the grid can be set to (None: the cell is cleared); rows
\* have one column
Cells == {"a", None}

\* truthiness of a selectbox result, as in "if selected_db:"
Truthy(x) == x # None /\ x # ""

Range(q) == {q[i] : i \in 1..Len(q)}

\* list.index(x) for x in q (1-based here)
IndexOf(q, x) == CHOOSE i \in 1..Len(q) : q[i] = x /\ \A j \in 1..(i-1) : q[j] # x

\* [x for x in q if x not in excluded]
RECURSIVE ListWithout(_, _)
ListWithout(q, excluded) ==
    IF q = <<>> THEN <<>>
    ELSE IF Head(q) \in excluded THEN ListWithout(Tail(q), excluded)
         ELSE <<Head(q)>> \o ListWithout(Tail(q), excluded)

Put(f, k, v) == [x \in (DOMAIN f) \cup {k} |-> IF x = k THEN v ELSE f[x]]

----------------------------------------------------------------------------
(* The Snowflake side: what the statements of the script answer *)

\* rows of SHOW ROLES
ShowRoles == <<"R1", "R2">>

\* rows of SHOW DATABASES for the active role, in catalog order; the account's
\* shared SNOWFLAKE database is visible to every role, DB1 and DB2 to R1 only
ShowDatabases(cat, role) ==
    IF role = "R1" THEN <<"DB2", "SNOWFLAKE", "DB1">> ELSE <<"SNOWFLAKE">>

\* rows of SHOW SCHEMAS IN DATABASE d; in the catalog "dropped" another
\* session has dropped DB2.S2
ShowSchemas(cat, d) ==
    CASE d = "DB1" -> <<"INFORMATION_SCHEMA", "S1", "S2">>
      [] d = "DB2" -> IF cat = "dropped" THEN <<"S1", "INFORMATION_SCHEMA">>
                      ELSE <<"S1", "S2", "INFORMATION_SCHEMA">>
      [] OTHER -> <<>>

\* rows of SHOW TABLES IN d.s
ShowTables(cat, d, s) ==
    IF d = "DB1" /\ s = "S1" THEN <<"T1", "T2">> ELSE <<>>

\* the tables that hold rows
TableIds == {<<"DB1", "S1", "T1">>, <<"DB1", "S1", "T2">>}

\* the rows the tables hold when the page is first opened
InitialRows(id) ==
    IF id = <<"DB1", "S1", "T1">> THEN <<"a">> ELSE <<>>

----------------------------------------------------------------------------
(* A script run threads a context record s through the statements of the   *)
(* script.  A statement whose outcome the script cannot control (a query   *)
(* against the session) yields one context per outcome, so every step maps *)
(* a context to a set of contexts.                                         *)

NoSelectbox == [live |-> FALSE, opts |-> <<>>, idx |-> 0, val |-> None]
NoEdits == [edited_rows |-> <<>>, added_rows |-> <<>>, deleted_rows |-> {}]
NoEditor == [live |-> FALSE, key |-> <<>>, data |-> <<>>, edits |-> NoEdits]
Labels == {"Select Role", "Select Database", "Select Schema", "Select Table"}

\* the script's variables before any statement has run
NoLocals ==
    [roles |-> <<>>, current_role |-> None, selected_role |-> None,
     databases |-> <<>>, selected_db |-> None,
     schemas |-> <<>>, selected_schema |-> None,
     tables |-> <<>>, selected_table |-> None,
     grid |-> FALSE, edited_df |-> <<>>, df_before_load |-> <<>>]

\* outcome of a statement inside "except Exception"
AnyOutcomes(s) == IF s.events < MaxEvents THEN {"ok", "error"} ELSE {"ok"}
\* outcome of a statement inside "except SnowparkSQLException" only: the
\* exception raised is of that class or of another one
SqlOutcomes(s) ==
    IF s.events < MaxEvents THEN {"ok", "SnowparkSQLException", "OtherException"}
    ELSE {"ok"}

\* a statement is issued and ends as o
Issued(s, o) ==
    [s EXCEPT !.events = IF o \in {"ok", "no such role"} THEN @ ELSE @ + 1]

\* the same, for the statements the log keeps: every one but the catalog
\* queries of the memoised functions, which nq counts
Logged(s, stmt, arg, o) == [Issued(s, o) EXCEPT !.log = Append(@, <<stmt, arg, o>>)]

\* an exception no handler of the script catches: the run ends there and
\* Streamlit renders the exception itself
Uncaught(s) == [s EXCEPT !.pc = "uncaught", !.msgs = @ \cup {"uncaught exception"}]

\* cached_call with the memo never written: every call runs its query
cached_call_unmemoised(s, key, o, fresh, errmsg) ==
    LET entry == IF o \in {"ok", "cached"} THEN [val |-> fresh, err |-> FALSE]
                 ELSE [val |-> <<>>, err |-> TRUE]
        n == IF key \in DOMAIN s.nq THEN s.nq[key] ELSE 0
    IN [Issued(s, IF o = "cached" THEN "ok" ELSE o) EXCEPT
           !.cache = Put(@, key, entry),
           !.cachedUnder = Put(@, key, s.sessRole),
           !.nq = Put(@, key, IF n < MaxCount THEN n + 1 ELSE n),
           !.ret = entry.val,
           !.msgs = IF entry.err THEN @ \cup {errmsg} ELSE @]

\* cached_call around a function with no except branch: a failing query raises
cached_call_raises(s, key, o, fresh, errmsg) ==
    IF key \in DOMAIN s.cache
    THEN [s EXCEPT !.ret = s.cache[key].val]
    ELSE LET n == IF key \in DOMAIN s.nq THEN s.nq[key] ELSE 0
             t == [Issued(s, o) EXCEPT !.nq = Put(@, key, IF n < MaxCount THEN n + 1 ELSE n)]
         IN IF o = "ok"
            THEN [t EXCEPT !.cache = Put(@, key, [val |-> fresh, err |-> FALSE]),
                           !.cachedUnder = Put(@, key, s.sessRole),
                           !.ret = fresh]
            ELSE Uncaught(t)

\* @st.cache_data around a function whose body runs one query and returns
\* `fresh` or, in its except branch, st.error(errmsg) and []
cached_call(s, key, o, fresh, errmsg) ==
    IF key \in DOMAIN s.cache
    THEN [s EXCEPT !.ret = s.cache[key].val,
                   !.msgs = IF s.cache[key].err THEN @ \cup {errmsg} ELSE @]
    ELSE LET entry == IF o = "ok" THEN [val |-> fresh, err |-> FALSE]
                      ELSE [val |-> <<>>, err |-> TRUE]
             n == IF key \in DOMAIN s.nq THEN s.nq[key] ELSE 0
         IN [Issued(s, o) EXCEPT
                !.cache = Put(@, key, entry),
                !.cachedUnder = Put(@, key, s.sessRole),
                !.nq = Put(@, key, IF n < MaxCount THEN n + 1 ELSE n),
                !.ret = entry.val,
                !.msgs = IF entry.err THEN @ \cup {errmsg} ELSE @]

CallOutcomes(s, key) == IF key \in DOMAIN s.cache THEN {"cached"} ELSE AnyOutcomes(s)

\* database_names comparing the name without regard to case
database_names_nocase(rows) == ListWithout(rows, {"SNOWFLAKE", "snowflake"})

\* [row["name"] for row in dbs if row["name"] not in ["SNOWFLAKE"]]
database_names(rows) == ListWithout(rows, {"SNOWFLAKE"})

\* [row["name"] for row in schemas if row["name"] != "INFORMATION_SCHEMA"]
schema_names(rows) == ListWithout(rows, {"INFORMATION_SCHEMA"})

KeyRoles == <<"get_roles", None, None>>
KeyDatabases == <<"get_databases", None, None>>
KeySchemas(d) == <<"get_schemas", d, None>>
KeyTables(d, sc) == <<"get_tables", d, sc>>

get_databases(s) ==
    {cached_call(s, KeyDatabases, o,
                 database_names(ShowDatabases(catalog, s.sessRole)),
                 "Error fetching databases") : o \in CallOutcomes(s, KeyDatabases)}

get_schemas(s, database) ==
    {cached_call(s, KeySchemas(database), o,
                 schema_names(ShowSchemas(catalog, database)),
                 "Error fetching schemas") : o \in CallOutcomes(s, KeySchemas(database))}

get_tables(s, database, schema) ==
    {cached_call(s, KeyTables(database, schema), o,
                 ShowTables(catalog, database, schema),
                 "Error fetching tables") : o \in CallOutcomes(s, KeyTables(database, schema))}

get_roles(s) ==
    {cached_call(s, KeyRoles, o, ShowRoles,
                 "Error fetching roles") : o \in CallOutcomes(s, KeyRoles)}

\* st.cache_data.clear(): every memoised entry of every function is dropped
cache_data_clear(s) == [s EXCEPT !.cache = <<>>, !.cachedUnder = <<>>, !.nq = <<>>]

\* run the next statement on every context still executing; a context whose
\* run has ended (uncaught exception, st.rerun()) passes through
Then(S, Op(_)) == UNION {IF s.pc = "run" THEN Op(s) ELSE {s} : s \in S}

\* st.sidebar.selectbox(label, options, index): no key is given, so the widget
\* is identified by its label, options and index; the value chosen earlier is
\* returned only by the same widget, any other starts at options[index]
\* (index counts from 1 here) and an empty list yields None
selectbox(s, label, options, index) ==
    LET old == s.w[label]
        value == IF options = <<>> THEN None
                 ELSE IF old.live /\ old.opts = options /\ old.idx = index THEN old.val
                 ELSE options[index]
    IN [s EXCEPT !.w[label] = [live |-> TRUE, opts |-> options, idx |-> index, val |-> value],
                 !.val = value,
                 !.rendered = @ \cup {label},
                 !.shown = IF options = <<>> THEN @ ELSE @ \cup {label}]

----------------------------------------------------------------------------
(* Role selection *)

\* roles = get_roles()
roles_step(s) == {[t EXCEPT !.loc.roles = t.ret] : t \in get_roles(s)}

\* current_role = session.sql("SELECT CURRENT_ROLE()").collect()[0][0], outside
\* any try block
current_role_step(s) ==
    {IF o = "ok"
     THEN [Logged(s, "SELECT CURRENT_ROLE()", <<>>, o) EXCEPT !.loc.current_role = s.sessRole]
     ELSE Uncaught(Logged(s, "SELECT CURRENT_ROLE()", <<>>, o)) : o \in AnyOutcomes(s)}

\* selected_role = st.sidebar.selectbox("Select Role", roles, index=...)
select_role_step(s) ==
    LET roles == s.loc.roles
        index == IF s.loc.current_role \in Range(roles)
                 THEN IndexOf(roles, s.loc.current_role) ELSE 1
        t == selectbox(s, "Select Role", roles, index)
    IN {[t EXCEPT !.loc.selected_role = t.val]}

\* use_role with st.cache_data.clear() moved out of the try block: the memo
\* is dropped whether or not the statement succeeds
use_role_clear_always(s, o) ==
    LET t == cache_data_clear(Logged(s, "USE ROLE", <<s.loc.selected_role>>, o))
    IN IF o = "ok"
       THEN [t EXCEPT !.sessRole = s.loc.selected_role,
                      !.msgs = @ \cup {"Switched to role"}]
       ELSE [t EXCEPT !.msgs = @ \cup {"Error switching role"}]

\* use_role without st.cache_data.clear()
use_role_no_clear(s, o) ==
    LET t == Logged(s, "USE ROLE", <<s.loc.selected_role>>, o)
    IN IF o = "ok"
       THEN [t EXCEPT !.sessRole = s.loc.selected_role,
                      !.msgs = @ \cup {"Switched to role"}]
       ELSE [t EXCEPT !.msgs = @ \cup {"Error switching role"}]

\* the try block around USE ROLE, for the outcome o of the statement
use_role(s, o) ==
    LET t == Logged(s, "USE ROLE", <<s.loc.selected_role>>, o)
    IN IF o = "ok"
       THEN cache_data_clear([t EXCEPT !.sessRole = s.loc.selected_role,
                                       !.msgs = @ \cup {"Switched to role"}])
       ELSE [t EXCEPT !.msgs = @ \cup {"Error switching role"}]

\* USE ROLE None names no role and cannot succeed
UseRoleOutcomes(s) == IF s.loc.selected_role = None THEN {"no such role"} ELSE AnyOutcomes(s)

\* if selected_role != current_role: try: USE ROLE ...
switch_role_step(s) ==
    IF s.loc.selected_role # s.loc.current_role
    THEN {use_role(s, o) : o \in UseRoleOutcomes(s)}
    ELSE {s}

----------------------------------------------------------------------------
(* Database, schema and table selection *)

database_step(s) ==
    {LET u == selectbox([t EXCEPT !.loc.databases = t.ret],
                        "Select Database", t.ret, 1)
     IN [u EXCEPT !.loc.selected_db = u.val] : t \in get_databases(s)}

\* schema_step listing the schemas of databases[0] instead of selected_db
schema_step_first_db(s) ==
    IF Truthy(s.loc.selected_db)
    THEN {LET u == selectbox([t EXCEPT !.loc.schemas = t.ret],
                             "Select Schema", t.ret, 1)
          IN [u EXCEPT !.loc.selected_schema = u.val] : t \in get_schemas(s, s.loc.databases[1])}
    ELSE {[s EXCEPT !.loc.schemas = <<>>, !.loc.selected_schema = None]}

\* schema_step whose else branch keeps what the schema selector held before
schema_step_keeps_stale(s) ==
    IF Truthy(s.loc.selected_db)
    THEN {LET u == selectbox([t EXCEPT !.loc.schemas = t.ret],
                             "Select Schema", t.ret, 1)
          IN [u EXCEPT !.loc.selected_schema = u.val] : t \in get_schemas(s, s.loc.selected_db)}
    ELSE {[s EXCEPT !.loc.schemas = s.w["Select Schema"].opts,
                    !.loc.selected_schema = s.w["Select Schema"].val]}

schema_step(s) ==
    IF Truthy(s.loc.selected_db)
    THEN {LET u == selectbox([t EXCEPT !.loc.schemas = t.ret],
                             "Select Schema", t.ret, 1)
          IN [u EXCEPT !.loc.selected_schema = u.val] : t \in get_schemas(s, s.loc.selected_db)}
    ELSE {[s EXCEPT !.loc.schemas = <<>>, !.loc.selected_schema = None]}

table_step(s) ==
    IF Truthy(s.loc.selected_db) /\ Truthy(s.loc.selected_schema)
    THEN {LET u == selectbox([t EXCEPT !.loc.tables = t.ret],
                             "Select Table", t.ret, 1)
          IN [u EXCEPT !.loc.selected_table = u.val]
             : t \in get_tables(s, s.loc.selected_db, s.loc.selected_schema)}
    ELSE {[s EXCEPT !.loc.tables = <<>>, !.loc.selected_table = None]}

\* if "df" not in st.session_state: st.session_state.df = pd.DataFrame()
session_state_step(s) ==
    {IF "df" \in DOMAIN s.session_state THEN s
     ELSE [s EXCEPT !.session_state = Put(@, "df", <<>>)]}

----------------------------------------------------------------------------
(* Table editor *)

TableId(s) == <<s.loc.selected_db, s.loc.selected_schema, s.loc.selected_table>>

\* "except SnowparkSQLException as e: st.error(Error fetching table data)":
\* the rest of the outer try block is skipped
fetch_error(s) == [s EXCEPT !.msgs = @ \cup {"Error fetching table data"}, !.pc = "done"]

\* load with the buffer emptied before the query runs
load_clears_first(s, o) ==
    LET t == [Logged(s, "SELECT *", TableId(s), o) EXCEPT
                 !.loc.df_before_load = s.session_state["df"],
                 !.session_state["df"] = <<>>]
    IN CASE o = "ok" -> [t EXCEPT !.session_state["df"] = s.remote[TableId(s)]]
         [] o = "SnowparkSQLException" -> fetch_error(t)
         [] OTHER -> Uncaught(t)

\* st.session_state.df = session.sql(query).to_pandas(), for the outcome o
load(s, o) ==
    LET t == [Logged(s, "SELECT *", TableId(s), o) EXCEPT
                 !.loc.df_before_load = s.session_state["df"]]
    IN CASE o = "ok" -> [t EXCEPT !.session_state["df"] = s.remote[TableId(s)]]
         [] o = "SnowparkSQLException" -> fetch_error(t)
         [] OTHER -> Uncaught(t)

\* fetch_step loading the table only while st.session_state.df is empty
fetch_step_once(s) ==
    IF Truthy(s.loc.selected_db) /\ Truthy(s.loc.selected_schema)
       /\ Truthy(s.loc.selected_table)
    THEN IF s.session_state["df"] = <<>>
         THEN {load(s, o) : o \in SqlOutcomes(s)}
         ELSE {s}
    ELSE {[s EXCEPT !.msgs = @ \cup {"Please select a database, schema, and table to begin."},
                    !.pc = "done"]}

\* if selected_db and selected_schema and selected_table: ... else: st.info(...)
fetch_step(s) ==
    IF Truthy(s.loc.selected_db) /\ Truthy(s.loc.selected_schema)
       /\ Truthy(s.loc.selected_table)
    THEN {load(s, o) : o \in SqlOutcomes(s)}
    ELSE {[s EXCEPT !.msgs = @ \cup {"Please select a database, schema, and table to begin."},
                    !.pc = "done"]}

\* rows of the grid: the rows of `data` that are not deleted, with their cell
\* edits, followed by the added rows
RECURSIVE KeptRows(_, _, _)
KeptRows(data, e, i) ==
    IF i > Len(data) THEN <<>>
    ELSE (IF i \in e.deleted_rows THEN <<>>
          ELSE IF i \in DOMAIN e.edited_rows THEN <<e.edited_rows[i]>>
          ELSE <<data[i]>>) \o KeptRows(data, e, i + 1)

ApplyEdits(data, e) == KeptRows(data, e, 1) \o e.added_rows

\* data_editor returning the empty last row the dynamic grid draws as a row
data_editor_blank_row(s) ==
    LET data == s.session_state["df"]
        old == s.wedit
        edits == IF old.live /\ old.key = TableId(s) /\ old.data = data
                 THEN old.edits ELSE NoEdits
    IN {[s EXCEPT !.wedit = [live |-> TRUE, key |-> TableId(s), data |-> data,
                             edits |-> edits],
                  !.loc.grid = TRUE,
                  !.loc.edited_df = Append(ApplyEdits(data, edits), None),
                  !.rendered = @ \cup {"editor"},
                  !.shown = @ \cup {"editor"}]}

\* edited_df = st.data_editor(st.session_state.df, num_rows="dynamic", key=...):
\* the widget is identified by its key and its data; the same widget returns
\* the data with the edits made in the grid, any other the data as given
data_editor(s) ==
    LET data == s.session_state["df"]
        old == s.wedit
        edits == IF old.live /\ old.key = TableId(s) /\ old.data = data
                 THEN old.edits ELSE NoEdits
    IN {[s EXCEPT !.wedit = [live |-> TRUE, key |-> TableId(s), data |-> data,
                             edits |-> edits],
                  !.loc.grid = TRUE,
                  !.loc.edited_df = ApplyEdits(data, edits),
                  !.rendered = @ \cup {"editor"},
                  !.shown = @ \cup {"editor"}]}

\* "except SnowparkSQLException as e: st.error(Error saving changes)"
save_error(s) == [s EXCEPT !.msgs = @ \cup {"Error saving changes"}]

\* write_pandas with st.session_state.df = edited_df moved before the insert
write_pandas_assign_first(s, o) ==
    LET t == [Logged(s, "write_pandas", TableId(s), o) EXCEPT
                 !.session_state["df"] = s.loc.edited_df]
    IN CASE o = "ok" -> [t EXCEPT !.remote[TableId(s)] = s.loc.edited_df,
                                  !.msgs = @ \cup {"Changes saved successfully!"}]
         [] o = "SnowparkSQLException" -> save_error(t)
         [] OTHER -> Uncaught(t)

\* session.write_pandas(edited_df, ...) and the two statements after it
write_pandas(s, o) ==
    LET t == Logged(s, "write_pandas", TableId(s), o)
    IN CASE o = "ok" -> [t EXCEPT !.remote[TableId(s)] = s.loc.edited_df,
                                  !.msgs = @ \cup {"Changes saved successfully!"},
                                  !.session_state["df"] = s.loc.edited_df]
         [] o = "SnowparkSQLException" -> save_error(t)
         [] OTHER -> Uncaught(t)

\* save_changes with a try block of its own around each statement: the
\* insert runs whatever became of the TRUNCATE
save_changes_insert_anyway(s, o) ==
    LET t == Logged(s, "TRUNCATE TABLE", TableId(s), o)
    IN CASE o = "ok" ->
              {write_pandas([t EXCEPT !.remote[TableId(s)] = <<>>], o2) : o2 \in SqlOutcomes(t)}
         [] o = "SnowparkSQLException" ->
              {write_pandas(save_error(t), o2) : o2 \in SqlOutcomes(t)}
         [] OTHER -> {Uncaught(t)}

\* session.sql("TRUNCATE TABLE ...").collect() and what follows it in the try
save_changes(s, o) ==
    LET t == Logged(s, "TRUNCATE TABLE", TableId(s), o)
    IN CASE o = "ok" ->
              {write_pandas([t EXCEPT !.remote[TableId(s)] = <<>>], o2) : o2 \in SqlOutcomes(t)}
         [] o = "SnowparkSQLException" -> {save_error(t)}
         [] OTHER -> {Uncaught(t)}

\* if st.button("Save Changes", key="save_button"): ...
save_step(s) ==
    LET t == [s EXCEPT !.shown = @ \cup {"Save Changes"}]
    IN IF s.clicked = "Save Changes"
       THEN UNION {save_changes(t, o) : o \in SqlOutcomes(s)}
       ELSE {t}

\* st.session_state.df = session.sql(query).to_pandas(); st.rerun()
reset(s, o) ==
    LET t == [Logged(s, "SELECT *", TableId(s), o) EXCEPT
                 !.loc.df_before_load = s.session_state["df"]]
    IN CASE o = "ok" -> [t EXCEPT !.session_state["df"] = s.remote[TableId(s)],
                                  !.pc = "rerun"]
         [] o = "SnowparkSQLException" -> fetch_error(t)
         [] OTHER -> Uncaught(t)

\* if st.button("Reset", key="reset_button"): ...
reset_step(s) ==
    LET t == [s EXCEPT !.shown = @ \cup {"Reset"}]
    IN IF s.clicked = "Reset"
       THEN {reset(t, o) : o \in SqlOutcomes(s)}
       ELSE {t}

----------------------------------------------------------------------------
(* One run of the script *)

\* the context a run starts in: the state kept between runs, the widget
\* values as the browser sends them and the button that was clicked
Context(widgets, editor, button, edited) ==
    [sessRole |-> sessRole, remote |-> remote, cache |-> cache,
     cachedUnder |-> cachedUnder, nq |-> nq, session_state |-> session_state,
     w |-> widgets, wedit |-> editor, clicked |-> button, events |-> events + edited,
     loc |-> NoLocals, msgs |-> {}, shown |-> {}, rendered |-> {}, log |-> <<>>,
     pc |-> "run", ret |-> <<>>, val |-> None]

\* the statements of the script, top to bottom
ScriptRun(s0) ==
    LET r1 == Then({s0}, roles_step)
        r2 == Then(r1, current_role_step)
        r3 == Then(r2, select_role_step)
        r4 == Then(r3, switch_role_step)
        r5 == Then(r4, database_step)
        r6 == Then(r5, schema_step)
        r7 == Then(r6, table_step)
        r8 == Then(r7, session_state_step)
        r9 == Then(r8, fetch_step)
        r10 == Then(r9, data_editor)
        r11 == Then(r10, save_step)
    IN Then(r11, reset_step)

\* the end of a run: unless an exception ended it, the state of every widget
\* the run did not render is dropped
EndOfRun(s) ==
    IF s.pc = "uncaught" THEN s
    ELSE [s EXCEPT !.w = [l \in Labels |-> IF l \in s.rendered THEN s.w[l] ELSE NoSelectbox],
                   !.wedit = IF "editor" \in s.rendered THEN s.wedit ELSE NoEditor]

Commit(s, trig) ==
    LET f == EndOfRun(s)
    IN /\ sessRole' = f.sessRole
       /\ remote' = f.remote
       /\ cache' = f.cache
       /\ cachedUnder' = f.cachedUnder
       /\ nq' = f.nq
       /\ session_state' = f.session_state
       /\ w' = f.w
       /\ wedit' = f.wedit
       /\ loc' = f.loc
       /\ msgs' = f.msgs
       /\ shown' = f.shown
       /\ log' = f.log
       /\ trigger' = trig
       /\ events' = f.events
       /\ rerun_requested' = (f.pc = "rerun")
       /\ UNCHANGED <<catalog, listing>>

----------------------------------------------------------------------------
(* What the user does in the grid (num_rows="dynamic") *)

\* the indices in `data` of the grid's rows that come from `data`
RECURSIVE KeptIndices(_, _, _)
KeptIndices(data, e, i) ==
    IF i > Len(data) THEN <<>>
    ELSE (IF i \in e.deleted_rows THEN <<>> ELSE <<i>>) \o KeptIndices(data, e, i + 1)

Without(f, k) == [x \in (DOMAIN f) \ {k} |-> f[x]]

RemoveAt(q, j) == [i \in 1..(Len(q) - 1) |-> IF i < j THEN q[i] ELSE q[i + 1]]

\* typing v into the cell of grid row g
CellEdited(ed, g, v) ==
    LET kept == KeptIndices(ed.data, ed.edits, 1)
    IN IF g <= Len(kept)
       THEN [ed EXCEPT !.edits.edited_rows = Put(@, kept[g], v)]
       ELSE [ed EXCEPT !.edits.added_rows[g - Len(kept)] = v]

\* the "+" of the grid: a new last row of empty cells
RowAdded(ed) == [ed EXCEPT !.edits.added_rows = Append(@, None)]

\* deleting grid row g
RowDeleted(ed, g) ==
    LET kept == KeptIndices(ed.data, ed.edits, 1)
    IN IF g <= Len(kept)
       THEN [ed EXCEPT !.edits.deleted_rows = @ \cup {kept[g]},
                       !.edits.edited_rows = Without(@, kept[g])]
       ELSE [ed EXCEPT !.edits.added_rows = RemoveAt(@, g - Len(kept))]

----------------------------------------------------------------------------
(* Specification *)

\* no catalog function has been applied on its own
NoListing == [fn |-> "none", raw |-> <<>>, result |-> <<>>]

Init ==
    /\ sessRole = "R1"
    /\ catalog = "full"
    /\ remote = [id \in TableIds |-> InitialRows(id)]
    /\ cache = <<>>
    /\ cachedUnder = <<>>
    /\ nq = <<>>
    /\ session_state = <<>>
    /\ w = [l \in Labels |-> NoSelectbox]
    /\ wedit = NoEditor
    /\ loc = NoLocals
    /\ msgs = {}
    /\ shown = {}
    /\ log = <<>>
    /\ trigger = "none"
    /\ events = 0
    /\ rerun_requested = FALSE
    /\ listing = NoListing

\* the page is opened, or re-run with no widget changed
PageRun ==
    /\ ~rerun_requested
    /\ \E f \in ScriptRun(Context(w, wedit, None, 0)) : Commit(f, "page")

\* the run the script runner starts after st.rerun()
ScriptRerun ==
    /\ rerun_requested
    /\ \E f \in ScriptRun(Context(w, wedit, None, 0)) : Commit(f, "st.rerun")

\* another entry of the selectbox `label` is chosen
Selected(label) ==
    /\ label \in shown
    /\ \E v \in Range(w[label].opts) :
          /\ v # w[label].val
          /\ \E f \in ScriptRun(Context([w EXCEPT ![label].val = v], wedit, None, 0)) :
                Commit(f, label)

SelectRole ==
    /\ ~rerun_requested
    /\ Selected("Select Role")

SelectDatabase ==
    /\ ~rerun_requested
    /\ Selected("Select Database")

SelectSchema ==
    /\ ~rerun_requested
    /\ Selected("Select Schema")

SelectTable ==
    /\ ~rerun_requested
    /\ Selected("Select Table")

EditCell ==
    /\ ~rerun_requested
    /\ "editor" \in shown
    /\ events < MaxEvents
    /\ \E g \in 1..Len(loc.edited_df), v \in Cells :
          /\ v # loc.edited_df[g]
          /\ \E f \in ScriptRun(Context(w, CellEdited(wedit, g, v), None, 1)) :
                Commit(f, "editor")

AddRow ==
    /\ ~rerun_requested
    /\ "editor" \in shown
    /\ events < MaxEvents
    /\ \E f \in ScriptRun(Context(w, RowAdded(wedit), None, 1)) : Commit(f, "editor")

DeleteRow ==
    /\ ~rerun_requested
    /\ "editor" \in shown
    /\ events < MaxEvents
    /\ \E g \in 1..Len(loc.edited_df) :
          /\ \E f \in ScriptRun(Context(w, RowDeleted(wedit, g), None, 1)) :
                Commit(f, "editor")

Save ==
    /\ ~rerun_requested
    /\ "Save Changes" \in shown
    /\ \E f \in ScriptRun(Context(w, wedit, "Save Changes", 0)) : Commit(f, "Save Changes")

Reset ==
    /\ ~rerun_requested
    /\ "Reset" \in shown
    /\ \E f \in ScriptRun(Context(w, wedit, "Reset", 0)) : Commit(f, "Reset")

\* another session drops DB2.S2
CatalogChange ==
    /\ catalog = "full"
    /\ catalog' = "dropped"
    /\ UNCHANGED <<sessRole, remote, cache, cachedUnder, nq, session_state, w, wedit,
                   loc, msgs, shown, log, trigger, events, rerun_requested, listing>>

Next ==
    \/ PageRun
    \/ ScriptRerun
    \/ SelectRole
    \/ SelectDatabase
    \/ SelectSchema
    \/ SelectTable
    \/ EditCell
    \/ AddRow
    \/ DeleteRow
    \/ Save
    \/ Reset
    \/ CatalogChange

Spec == Init /\ [][Next]_vars

----------------------------------------------------------------------------
(* The name filters of get_databases and get_schemas, on any answer *)

\* names a catalog row can carry
RawNames == {"SNOWFLAKE", "INFORMATION_SCHEMA", "ANALYTICS", "snowflake"}

\* the answers of SHOW DATABASES / SHOW SCHEMAS, in catalog order
RawLists == UNION {[1..n -> RawNames] : n \in 0..MaxNames}

\* get_databases() over the answer `raw` of SHOW DATABASES
ListDatabases ==
    /\ \E raw \in RawLists :
          listing' = [fn |-> "get_databases", raw |-> raw, result |-> database_names(raw)]
    /\ UNCHANGED <<sessRole, catalog, remote, cache, cachedUnder, nq, session_state, w,
                   wedit, loc, msgs, shown, log, trigger, events, rerun_requested>>

\* get_schemas(d) over the answer `raw` of SHOW SCHEMAS IN DATABASE d
ListSchemas ==
    /\ \E raw \in RawLists :
          listing' = [fn |-> "get_schemas", raw |-> raw, result |-> schema_names(raw)]
    /\ UNCHANGED <<sessRole, catalog, remote, cache, cachedUnder, nq, session_state, w,
                   wedit, loc, msgs, shown, log, trigger, events, rerun_requested>>

NextListing ==
    \/ ListDatabases
    \/ ListSchemas

SpecListing == Init /\ [][NextListing]_vars

----------------------------------------------------------------------------
(* Properties *)

\* the table the last run had selected
CurrentTable == <<loc.selected_db, loc.selected_schema, loc.selected_table>>

\* outcomes of a statement that raised
Failures == {"error", "SnowparkSQLException", "OtherException", "no such role"}

\* the run that wrote the log l issued stmt, which ended in one of `outcomes`
Ran(l, stmt, outcomes) == \E i \in 1..Len(l) : l[i][1] = stmt /\ l[i][3] \in outcomes

\* the last run truncated the table and its bulk insert then failed
InsertFailed ==
    /\ Ran(log, "TRUNCATE TABLE", {"ok"})
    /\ Ran(log, "write_pandas", Failures)

\* C1: whenever a Save truncated the target table and the bulk insert that
\* follows failed, the remote table has no rows and the failure shown to the
\* user says that the table is now empty.
C1_FailedInsertReportsEmptyTable ==
    InsertFailed =>
        /\ remote[CurrentTable] = <<>>
        /\ "The table is now empty" \in msgs

\* C2: in every run whose USE ROLE statement raises, the session's role after
\* the run is the role before it, the failure is shown, and every entry the
\* memo held before the run is still there, unchanged.
C2_FailedSwitchKeepsRoleAndCache ==
    [][Ran(log', "USE ROLE", Failures) =>
          /\ sessRole' = sessRole
          /\ "Error switching role" \in msgs'
          /\ \A k \in DOMAIN cache : k \in DOMAIN cache' /\ cache'[k] = cache[k]]_vars

\* a role switch chosen in the selectbox failed while the memo held the lists
\* of the role that stays active
C2_Witness ==
    /\ trigger = "Select Role"
    /\ Ran(log, "USE ROLE", {"error"})
    /\ loc.selected_role = "R2"
    /\ sessRole = "R1"
    /\ cachedUnder[KeyRoles] = "R1"
    /\ loc.databases = <<"DB2", "DB1">>

\* C3: no memoised list was computed under a role other than the session's
\* active one, and a run whose USE ROLE succeeded ran SHOW DATABASES afresh,
\* once, under the new role: its database list is that role's list (or the
\* empty list of a failed query), never the previous role's.
C3_SwitchRequeries ==
    /\ \A k \in DOMAIN cache : cachedUnder[k] = sessRole
    /\ Ran(log, "USE ROLE", {"ok"}) =>
          /\ KeyDatabases \in DOMAIN cache
          /\ nq[KeyDatabases] = 1
          /\ loc.databases = cache[KeyDatabases].val
          /\ \/ cache[KeyDatabases].err
             \/ loc.databases = ListWithout(ShowDatabases(catalog, sessRole), {"SNOWFLAKE"})

\* the session switched back from R2, under which no database is listed, to
\* R1, and the run lists R1's databases
C3_Witness ==
    /\ trigger = "Select Role"
    /\ Ran(log, "USE ROLE", {"ok"})
    /\ sessRole = "R1"
    /\ loc.databases = <<"DB2", "DB1">>
    /\ cachedUnder[KeySchemas("DB2")] = "R1"

\* the step is a run in which the database selection changes to a database
DatabaseChanged ==
    /\ trigger' = "Select Database"
    /\ Truthy(loc'.selected_db)
    /\ loc'.selected_db # loc.selected_db

\* what a selectbox over `options` with index 0 returns when `old` is the
\* state the widget of that label had after the previous run
SelectboxValue(old, options) ==
    IF options = <<>> THEN None
    ELSE IF old.live /\ old.opts = options /\ old.idx = 1 THEN old.val
    ELSE options[1]

UnsetOrIn(x, candidates) == x = None \/ x \in Range(candidates)

\* C5: after every run each selection is unset or one of its candidates, the
\* table is set only if the schema is, the schema only if the database is,
\* and the database only if the selected role is the session's active role.
C5_SelectionInvariant ==
    /\ UnsetOrIn(loc.selected_role, loc.roles)
    /\ UnsetOrIn(loc.selected_db, loc.databases)
    /\ UnsetOrIn(loc.selected_schema, loc.schemas)
    /\ UnsetOrIn(loc.selected_table, loc.tables)
    /\ Truthy(loc.selected_table) => Truthy(loc.selected_schema)
    /\ Truthy(loc.selected_schema) => Truthy(loc.selected_db)
    /\ Truthy(loc.selected_db) => loc.selected_role = sessRole

C7_ResetDiscardsEdits ==
    (trigger = "st.rerun" /\ loc.grid) => loc.edited_df = remote[CurrentTable]

\* messages the script renders for a failure it caught
ErrorMessages ==
    {"Error fetching roles", "Error fetching databases", "Error fetching schemas",
     "Error fetching tables", "Error switching role", "Error fetching table data",
     "Error saving changes"}

\* C8: no run ends in an exception the script did not catch, and a run in
\* which a statement failed shows an error message of the script.
C8_NoUncaughtException ==
    /\ "uncaught exception" \notin msgs
    /\ (\E stmt \in {"SELECT CURRENT_ROLE()", "USE ROLE", "SELECT *",
                     "TRUNCATE TABLE", "write_pandas"} : Ran(log, stmt, Failures))
          => msgs \cap ErrorMessages # {}

\* C9: between two successful role switches no catalog query runs twice for
\* the same parameters, the lists a run shows are the memoised ones, and an
\* entry of the memo goes away or changes only in a run whose USE ROLE
\* succeeded, not when the catalog changes.
C9_CachedUntilRoleSwitch ==
    [][/\ \A k \in DOMAIN nq' : nq'[k] <= 1
       /\ Truthy(loc'.selected_db) =>
             /\ KeySchemas(loc'.selected_db) \in DOMAIN cache'
             /\ loc'.schemas = cache'[KeySchemas(loc'.selected_db)].val
       /\ \A k \in DOMAIN cache :
             \/ k \in DOMAIN cache' /\ cache'[k] = cache[k]
             \/ Ran(log', "USE ROLE", {"ok"})]_vars

\* DB2.S2 has been dropped, and a later run still lists it from the memo
C9_Witness ==
    /\ catalog = "dropped"
    /\ trigger = "Select Schema"
    /\ loc.selected_db = "DB2"
    /\ loc.schemas = <<"S1", "S2">>
    /\ loc.selected_schema = "S2"
    /\ nq[KeySchemas("DB2")] = 1

\* C10: when the SELECT * of a load raises, the run shows the failure (the
\* script's message, or the exception itself when its class is not the one
\* the script catches) and st.session_state.df is what it was before.
C10_FailedLoadKeepsBuffer ==
    Ran(log, "SELECT *", Failures) =>
        /\ session_state["df"] = loc.df_before_load
        /\ msgs \cap {"Error fetching table data", "uncaught exception"} # {}

\* the load of T1 failed after an earlier run had loaded its row
C10_Witness ==
    /\ Ran(log, "SELECT *", {"SnowparkSQLException"})
    /\ CurrentTable = <<"DB1", "S1", "T1">>
    /\ session_state["df"] = <<"a">>
    /\ "Error fetching table data" \in msgs

\* the last run issued stmt
Issues(l, stmt) == Ran(l, stmt, {"ok"} \cup Failures)

\* how many times the run that wrote the log l issued stmt
TimesIssued(l, stmt) == Cardinality({i \in 1..Len(l) : l[i][1] = stmt})

\* C11: after a Save whose insert succeeded, st.session_state.df is the
\* edited frame that was written; after a Save whose TRUNCATE or insert
\* raised, st.session_state.df is still the frame the run had loaded and
\* handed to the grid, and the failed statement is the last one the run
\* issued: nothing is rolled back and nothing is tried again.
C11_SnapshotFollowsSave ==
    /\ Ran(log, "write_pandas", {"ok"}) =>
          /\ session_state["df"] = loc.edited_df
          /\ remote[CurrentTable] = loc.edited_df
    /\ (Ran(log, "TRUNCATE TABLE", Failures) \/ Ran(log, "write_pandas", Failures)) =>
          /\ session_state["df"] = wedit.data
          /\ log[Len(log)][1] \in {"TRUNCATE TABLE", "write_pandas"}
          /\ log[Len(log)][3] \in Failures
          /\ TimesIssued(log, "TRUNCATE TABLE") = 1
          /\ TimesIssued(log, "write_pandas") <= 1

\* a row was added in the grid and the Save lost it: the insert failed, the
\* snapshot is the loaded row alone
C11_Witness ==
    /\ InsertFailed
    /\ loc.edited_df = <<"a", None>>
    /\ session_state["df"] = <<"a">>

\* C12: after every run, if no database is selected the schema list is empty
\* and no schema is selected, and if no database or no schema is selected
\* the table list is empty and no table is selected.
C12_UnsetClearsBelow ==
    /\ ~Truthy(loc.selected_db) =>
          /\ loc.schemas = <<>>
          /\ loc.selected_schema = None
    /\ (~Truthy(loc.selected_db) \/ ~Truthy(loc.selected_schema)) =>
          /\ loc.tables = <<>>
          /\ loc.selected_table = None

\* the session went to R2, which sees no database, after a run under R1 had
\* listed schemas: the database is unset and nothing is listed below it
C12_Witness ==
    /\ trigger = "Select Role"
    /\ sessRole = "R2"
    /\ ~cache[KeyDatabases].err
    /\ loc.selected_db = None
    /\ loc.schemas = <<>>
    /\ w["Select Schema"] = NoSelectbox

\* C13: a failed catalog query leaves the empty list as its result and its
\* error message on the page: the caller sees what it sees for a catalog
\* with no children (empty list, nothing selected), and no run ends in an
\* uncaught exception unless one of the other statements raised.
C13_FailedCatalogQueryIsEmptyList ==
    /\ \A k \in DOMAIN cache : cache[k].err => cache[k].val = <<>>
    /\ "uncaught exception" \in msgs =>
          \E stmt \in {"SELECT CURRENT_ROLE()", "SELECT *", "TRUNCATE TABLE", "write_pandas"} :
             Ran(log, stmt, Failures)
    /\ (KeyRoles \in DOMAIN cache /\ cache[KeyRoles].err) =>
          /\ loc.roles = <<>>
          /\ loc.selected_role = None
          /\ "Error fetching roles" \in msgs
    /\ (KeyDatabases \in DOMAIN cache /\ cache[KeyDatabases].err
         /\ "uncaught exception" \notin msgs) =>
          /\ loc.databases = <<>>
          /\ loc.selected_db = None
          /\ "Error fetching databases" \in msgs
    /\ \A d \in Range(loc.databases) :
          (d = loc.selected_db /\ cache[KeySchemas(d)].err) =>
             /\ loc.schemas = <<>>
             /\ loc.selected_schema = None
             /\ "Error fetching schemas" \in msgs
    /\ (Truthy(loc.selected_db) /\ Truthy(loc.selected_schema)
         /\ cache[KeyTables(loc.selected_db, loc.selected_schema)].err) =>
          /\ loc.tables = <<>>
          /\ loc.selected_table = None
          /\ "Error fetching tables" \in msgs

\* SHOW SCHEMAS IN DATABASE DB2 failed: the run goes on with no schema
C13_Witness ==
    /\ loc.selected_db = "DB2"
    /\ cache[KeySchemas("DB2")].err
    /\ loc.schemas = <<>>
    /\ loc.selected_schema = None
    /\ msgs = {"Error fetching schemas",
               "Please select a database, schema, and table to begin."}

NotSnowflake(name) == name # "SNOWFLAKE"

NotInformationSchema(name) == name # "INFORMATION_SCHEMA"

\* C14: whatever rows SHOW DATABASES answers, get_databases returns the names
\* other than "SNOWFLAKE", each as often and in the order the answer has
\* them; get_schemas does the same with "INFORMATION_SCHEMA".
C14_ListsFilterExactly ==
    /\ listing.fn = "get_databases" =>
          listing.result = SelectSeq(listing.raw, NotSnowflake)
    /\ listing.fn = "get_schemas" =>
          listing.result = SelectSeq(listing.raw, NotInformationSchema)

\* the catalog of the scenario, with a name that differs from the excluded
\* one in case only
C14_Witness ==
    /\ listing.fn = "get_databases"
    /\ listing.raw = <<"ANALYTICS", "SNOWFLAKE", "snowflake">>
    /\ listing.result = <<"ANALYTICS", "snowflake">>

\* C15: a run started by choosing another table writes nothing to the
\* database, and the grid it renders holds no edit: it shows the chosen
\* table as the database holds it, also when that table was edited, and
\* left unsaved, before.
C15_TableSwitchDiscardsEdits ==
    [][(trigger' = "Select Table" /\ catalog' = catalog) =>
          /\ remote' = remote
          /\ loc'.grid =>
                /\ wedit'.edits = NoEdits
                /\ loc'.edited_df =
                      remote'[<<loc'.selected_db, loc'.selected_schema, loc'.selected_table>>]]_vars

\* C16: in the log of every run, an insert comes right after a TRUNCATE of
\* the same table that succeeded; a run whose TRUNCATE raised issues no
\* insert and leaves the rows of every table as they were.
C16_InsertOnlyAfterTruncate ==
    [][/\ \A i \in 1..Len(log') :
             log'[i][1] = "write_pandas" =>
                /\ i > 1
                /\ log'[i - 1] = <<"TRUNCATE TABLE", log'[i][2], "ok">>
       /\ Ran(log', "TRUNCATE TABLE", Failures) =>
             /\ ~Issues(log', "write_pandas")
             /\ remote' = remote]_vars

\* the TRUNCATE of T1 raised: T1 still holds its row
C16_Witness ==
    /\ trigger = "Save Changes"
    /\ Ran(log, "TRUNCATE TABLE", {"SnowparkSQLException"})
    /\ ~Issues(log, "write_pandas")
    /\ remote[CurrentTable] = <<"a">>
    /\ "Error saving changes" \in msgs

\* C17: every run that starts after a failed USE ROLE, with the role selector
\* still on the rejected role, issues USE ROLE for that role again; and a
\* run issues USE ROLE exactly if its selected role is not the role it read
\* as the session's current one.
C17_SwitchRetriedEveryRun ==
    [][catalog' = catalog =>
          /\ (Ran(log, "USE ROLE", Failures)
               /\ w'["Select Role"].val = loc.selected_role) =>
                 \E o \in {"ok"} \cup Failures :
                    Ran(log', "USE ROLE", {o}) /\ loc'.selected_role = loc.selected_role
          /\ Issues(log', "USE ROLE") <=> (loc'.selected_role # loc'.current_role)]_vars

\* outcome of the first stmt in the log l
FirstOutcome(l, stmt) ==
    l[CHOOSE i \in 1..Len(l) : l[i][1] = stmt /\ \A j \in 1..(i - 1) : l[j][1] # stmt][3]

\* C18: every run that has a database, a schema and a table selected issues
\* the SELECT * of that table; the grid is rendered exactly if that load
\* succeeds, over the rows the table held when the run began, and unless the
\* run goes on to truncate the table st.session_state.df ends as the
\* table's rows, whatever a Save had left in it.
C18_LoadedOnEveryRun ==
    [][(/\ catalog' = catalog
        /\ Truthy(loc'.selected_db)
        /\ Truthy(loc'.selected_schema)
        /\ Truthy(loc'.selected_table))
       => LET t == <<loc'.selected_db, loc'.selected_schema, loc'.selected_table>>
          IN /\ Issues(log', "SELECT *")
             /\ loc'.grid <=> FirstOutcome(log', "SELECT *") = "ok"
             /\ loc'.grid =>
                   /\ wedit'.data = remote[t]
                   /\ Issues(log', "TRUNCATE TABLE") \/ session_state'["df"] = remote'[t]]_vars

\* T1 was saved with its cell cleared, and the next run shows the table as
\* fetched again
C18_Witness ==
    /\ trigger = "page"
    /\ loc.grid
    /\ CurrentTable = <<"DB1", "S1", "T1">>
    /\ remote[CurrentTable] = <<None>>
    /\ wedit.data = <<None>>
    /\ wedit.edits = NoEdits
    /\ session_state["df"] = <<None>>

====
